---- MODULE Spec2Model ----
(***************************************************************************)
(* Model of scripts/format_media.py: the geometry functions                *)
(* crop_box_centered and pad_box, and the control flow of main() with its  *)
(* media kind resolution, transform dispatch and exit codes.               *)
(*                                                                         *)
(* Python floats are modelled as exact rationals (numerator, denominator) *)
(* and round() as round-half-to-even, which is what Python 3 computes.     *)
(* A focal value is the rational n / FocalDen.                             *)
(***************************************************************************)
EXTENDS Integers, Sequences, FiniteSets, TLC

\* ------------------------------------------------------------------ bounds
MaxDim == 5
FocalHalf == 2

\* focal values are the rationals n / FocalDen; 0.5 is FocalHalf / FocalDen
FocalDen == 2 * FocalHalf

\* --------------------------------------------------------------- constants
PLATFORMS == [w |-> 1080, h |-> 1920]
IMAGE_EXTS == {".jpg", ".jpeg", ".png", ".webp"}
VIDEO_EXTS == {".mp4", ".mov", ".m4v", ".webm"}

\* ----------------------------------------------------------------- helpers
Max(a, b) == IF a >= b THEN a ELSE b

\* a plausible slip: round() replaced by truncation, int(x)
RoundTruncate(n, d) == n \div d

\* int(round(n / d)) for n >= 0, d > 0: Python 3 rounds halves to even
Round(n, d) ==
    LET q == n \div d
        r == n % d
    IN  IF 2 * r < d THEN q
        ELSE IF 2 * r > d THEN q + 1
        ELSE IF q % 2 = 0 THEN q ELSE q + 1

\* clamp01 on the numerator of a focal value n / FocalDen
clamp01(n) ==
    IF n < 0 THEN 0
    ELSE IF n > FocalDen THEN FocalDen
    ELSE n

\* a plausible slip: the ratio comparison inverted (crops the wrong axis)
crop_box_wrong_axis(src_w, src_h, target_w, target_h, focal_x, focal_y) ==
    LET wide     == src_w * target_h < target_w * src_h
        crop_h   == IF wide THEN src_h ELSE Round(src_w * target_h, target_w)
        crop_w   == IF wide THEN Round(src_h * target_w, target_h) ELSE src_w
        max_left == Max(0, src_w - crop_w)
        max_top  == Max(0, src_h - crop_h)
        left0    == Round(max_left * focal_x, FocalDen)
        top0     == Round(max_top * focal_y, FocalDen)
        left1    == IF left0 < 0 THEN 0 ELSE left0
        top1     == IF top0 < 0 THEN 0 ELSE top0
        left     == IF left1 > max_left THEN max_left ELSE left1
        top      == IF top1 > max_top THEN max_top ELSE top1
    IN  <<left, top, crop_w, crop_h>>

\* a plausible slip: the slack is taken to be the whole source size
crop_box_full_slack(src_w, src_h, target_w, target_h, focal_x, focal_y) ==
    LET wide     == src_w * target_h > target_w * src_h
        crop_h   == IF wide THEN src_h ELSE Round(src_w * target_h, target_w)
        crop_w   == IF wide THEN Round(src_h * target_w, target_h) ELSE src_w
        max_left == Max(0, src_w)
        max_top  == Max(0, src_h)
        left0    == Round(max_left * focal_x, FocalDen)
        top0     == Round(max_top * focal_y, FocalDen)
        left1    == IF left0 < 0 THEN 0 ELSE left0
        top1     == IF top0 < 0 THEN 0 ELSE top0
        left     == IF left1 > max_left THEN max_left ELSE left1
        top      == IF top1 > max_top THEN max_top ELSE top1
    IN  <<left, top, crop_w, crop_h>>

\* a plausible slip: target ratio inverted (target_h / target_w)
crop_box_wrong_ratio(src_w, src_h, target_w, target_h, focal_x, focal_y) ==
    LET wide     == src_w * target_h > target_w * src_h
        crop_h   == IF wide THEN src_h ELSE Round(src_w * target_w, target_h)
        crop_w   == IF wide THEN Round(src_h * target_h, target_w) ELSE src_w
        max_left == Max(0, src_w - crop_w)
        max_top  == Max(0, src_h - crop_h)
        left0    == Round(max_left * focal_x, FocalDen)
        top0     == Round(max_top * focal_y, FocalDen)
        left1    == IF left0 < 0 THEN 0 ELSE left0
        top1     == IF top0 < 0 THEN 0 ELSE top0
        left     == IF left1 > max_left THEN max_left ELSE left1
        top      == IF top1 > max_top THEN max_top ELSE top1
    IN  <<left, top, crop_w, crop_h>>

\* crop_box_centered: returns <<left, top, width, height>>
\*   src_ratio > tgt_ratio  <=>  src_w * target_h > target_w * src_h
crop_box_centered(src_w, src_h, target_w, target_h, focal_x, focal_y) ==
    LET wide     == src_w * target_h > target_w * src_h
        crop_h   == IF wide THEN src_h ELSE Round(src_w * target_h, target_w)
        crop_w   == IF wide THEN Round(src_h * target_w, target_h) ELSE src_w
        max_left == Max(0, src_w - crop_w)
        max_top  == Max(0, src_h - crop_h)
        left0    == Round(max_left * focal_x, FocalDen)
        top0     == Round(max_top * focal_y, FocalDen)
        left1    == IF left0 < 0 THEN 0 ELSE left0
        top1     == IF top0 < 0 THEN 0 ELSE top0
        left     == IF left1 > max_left THEN max_left ELSE left1
        top      == IF top1 > max_top THEN max_top ELSE top1
    IN  <<left, top, crop_w, crop_h>>

\* a plausible slip: max instead of min (cover scale instead of fit scale)
pad_box_max(src_w, src_h, target_w, target_h) ==
    LET byW == target_w * src_h >= target_h * src_w
    IN  IF byW THEN <<target_w, Round(src_h * target_w, src_w)>>
        ELSE <<Round(src_w * target_h, src_h), target_h>>

\* pad_box: returns <<new_w, new_h>>
\*   scale = min(target_w / src_w, target_h / src_h), a rational num / den
pad_box(src_w, src_h, target_w, target_h) ==
    LET byW == target_w * src_h <= target_h * src_w
        num == IF byW THEN target_w ELSE target_h
        den == IF byW THEN src_w ELSE src_h
    IN  <<Round(src_w * num, den), Round(src_h * num, den)>>

\* ------------------------------------------------------------------ inputs
\* image / video sizes a decoder can report, and target sizes
SrcDims == ((1..MaxDim) \X (1..MaxDim))
              \cup {<<4000, 3000>>, <<3000, 4000>>, <<1, 10000>>, <<10000, 1>>}
TgtDims == ((1..MaxDim) \X (1..MaxDim)) \cup {<<1080, 1920>>, <<1080, 1080>>}
Focals  == 0..FocalDen

\* the value of --focal-x / --focal-y: a string float() accepts (ok, with
\* value num / FocalDen) or rejects
FocalArgs == {[ok |-> FALSE, num |-> 0]}
                \cup {[ok |-> TRUE, num |-> n] : n \in (-1)..(FocalDen + 1)}
\* the value of --mode: "fill" is outside choices=["crop", "pad"]
ModeArgs == {"crop", "pad", "fill"}
\* what the regex of guess_ext_from_url captures from the URL ("" = no match)
UrlMatches == {"", "jpg", "PNG", "webp", "mp4", "mov", "gif", "bin", "php"}
\* what the downloaded bytes are
Contents == {"jpeg", "png", "webp", "gif", "video", "junk"}

Lower(s) == IF s = "PNG" THEN "png" ELSE s

VARIABLES pc, args, focal, inp, content, kind, renames, imgProbed, vidProbed,
          started, outWritten, wrote, err, exitCode,
          gpc, src, tgt, crop, pad

mainVars == <<pc, args, inp, content, kind, renames, imgProbed, vidProbed,
              started, outWritten, wrote, err, exitCode>>
geomVars == <<gpc, src, tgt, crop, pad>>
vars == <<pc, args, focal, inp, content, kind, renames, imgProbed, vidProbed,
          started, outWritten, wrote, err, exitCode, gpc, src, tgt, crop, pad>>

NoArgs == [mode |-> "", focal_x |-> [ok |-> FALSE, num |-> 0],
           focal_y |-> [ok |-> FALSE, num |-> 0], url |-> ""]

\* ------------------------------------------------- small helpers of main()
guess_ext_from_url(m) == IF m = "" THEN "" ELSE "." \o Lower(m)

is_image(path) == path \in IMAGE_EXTS

is_video(path) == path \in VIDEO_EXTS

\* Image.open(inp) succeeds on these contents, im.format lowercased
ImageFormats == {"jpeg", "png", "webp", "gif"}

\* ffprobe_dims: succeeds when a video stream is found
ffprobe_dims(c) == c = "video"

\* a plausible slip: the png branch renames to .jpg
RenameTargetPngAsJpg(fmt) ==
    IF fmt \in {"jpeg", "jpg", "png"} THEN ".jpg"
    ELSE IF fmt = "webp" THEN ".webp"
    ELSE ""

\* the if/elif chain on fmt: the new suffix, "" when no branch matches
RenameTarget(fmt) ==
    IF fmt \in {"jpeg", "jpg"} THEN ".jpg"
    ELSE IF fmt = "png" THEN ".png"
    ELSE IF fmt = "webp" THEN ".webp"
    ELSE ""

\* a plausible slip: the probing block is never entered
NeedsProbeNever(path) == FALSE

\* if inp.suffix == ".bin"
NeedsProbe(path) == path = ".bin"

\* argparse: parser.error() exits with status 2, --help with status 0;
\* SystemExit is not an Exception, the handler of __main__ does not catch it
UsageExit == 2

\* a plausible slip: the handler exits with the usage status
ExceptionExitUsage == UsageExit

\* except Exception: print(str(exc), file=sys.stderr); sys.exit(1)
ExceptionExit == 1

\* an exception leaves main() and reaches the handler of __main__
Raise(e) ==
    /\ pc' = "failed"
    /\ err' = e
    /\ exitCode' = ExceptionExit

\* ------------------------------------------------------------------- main
Init ==
    /\ pc = "start"
    /\ args = NoArgs
    /\ focal = <<0, 0>>
    /\ inp = ""
    /\ content = "junk"
    /\ kind = "Unset"
    /\ renames = 0
    /\ imgProbed = FALSE
    /\ vidProbed = FALSE
    /\ started = FALSE
    /\ outWritten = FALSE
    /\ wrote = FALSE
    /\ err = "none"
    /\ exitCode = -1
    /\ gpc = "idle"
    /\ src = <<0, 0>>
    /\ tgt = <<0, 0>>
    /\ crop = <<0, 0, 0, 0>>
    /\ pad = <<0, 0>>

\* p.parse_args(): -h prints the help and exits 0, a value outside choices
\* exits 2, otherwise the arguments are returned
ParseArgs ==
    /\ pc = "start"
    /\ \E help \in BOOLEAN, m \in ModeArgs, fx \in FocalArgs, fy \in FocalArgs,
          u \in UrlMatches :
         IF help
         THEN /\ pc' = "exited"
              /\ exitCode' = 0
              /\ err' = "help"
              /\ args' = args
         ELSE IF m \notin {"crop", "pad"}
         THEN /\ pc' = "exited"
              /\ exitCode' = UsageExit
              /\ err' = "usage"
              /\ args' = args
         ELSE /\ pc' = "parsed"
              /\ args' = [mode |-> m, focal_x |-> fx, focal_y |-> fy, url |-> u]
              /\ UNCHANGED <<err, exitCode>>
    /\ UNCHANGED <<focal, inp, content, kind, renames, imgProbed, vidProbed,
                   started, outWritten, wrote>>
    /\ UNCHANGED geomVars

\* focal_x = clamp01(float(args.focal_x)) ... ext = guess_ext_from_url(url),
\* ".bin" when there is none; inp = work / f"input{ext}"
Prepare ==
    /\ pc = "parsed"
    /\ IF args.focal_x.ok /\ args.focal_y.ok
       THEN /\ focal' = <<clamp01(args.focal_x.num), clamp01(args.focal_y.num)>>
            /\ LET ext == guess_ext_from_url(args.url)
               IN  inp' = IF ext = "" THEN ".bin" ELSE ext
            /\ pc' = "download"
            /\ UNCHANGED <<err, exitCode>>
       ELSE /\ Raise("value")
            /\ UNCHANGED <<focal, inp>>
    /\ UNCHANGED <<args, content, kind, renames, imgProbed, vidProbed,
                   started, outWritten, wrote>>
    /\ UNCHANGED geomVars

\* download(args.media_url, inp)
Download ==
    /\ pc = "download"
    /\ \E ok \in BOOLEAN, c \in Contents :
         IF ok
         THEN /\ content' = c
              /\ pc' = IF NeedsProbe(inp) THEN "probe_image" ELSE "dispatch"
              /\ UNCHANGED <<err, exitCode>>
         ELSE /\ Raise("acquisition")
              /\ UNCHANGED content
    /\ UNCHANGED <<args, focal, inp, kind, renames, imgProbed, vidProbed,
                   started, outWritten, wrote>>
    /\ UNCHANGED geomVars

\* try: with Image.open(inp) as im: fmt = ...; rename by fmt
\* except Exception: continue with the video probe
ProbeImage ==
    /\ pc = "probe_image"
    /\ imgProbed' = TRUE
    /\ IF content \in ImageFormats
       THEN /\ pc' = "dispatch"
            /\ IF RenameTarget(content) # ""
               THEN /\ inp' = RenameTarget(content)
                    /\ renames' = renames + 1
               ELSE UNCHANGED <<inp, renames>>
       ELSE /\ pc' = "probe_video"
            /\ UNCHANGED <<inp, renames>>
    /\ UNCHANGED <<args, focal, content, kind, vidProbed, started, outWritten,
                   wrote, err, exitCode>>
    /\ UNCHANGED geomVars

\* a plausible slip: the failure of the video probe is swallowed
ProbeVideoSwallow ==
    /\ pc = "probe_video"
    /\ vidProbed' = TRUE
    /\ pc' = "dispatch"
    /\ IF ffprobe_dims(content)
       THEN /\ inp' = ".mp4"
            /\ renames' = renames + 1
       ELSE UNCHANGED <<inp, renames>>
    /\ UNCHANGED <<args, focal, content, kind, imgProbed, started, outWritten,
                   wrote, err, exitCode>>
    /\ UNCHANGED geomVars

\* try: ffprobe_dims(inp); rename to .mp4
\* except Exception: raise RuntimeError("Kon bestandstype niet bepalen. ...")
ProbeVideo ==
    /\ pc = "probe_video"
    /\ vidProbed' = TRUE
    /\ IF ffprobe_dims(content)
       THEN /\ inp' = ".mp4"
            /\ renames' = renames + 1
            /\ pc' = "dispatch"
            /\ UNCHANGED <<err, exitCode>>
       ELSE /\ Raise("kind")
            /\ UNCHANGED <<inp, renames>>
    /\ UNCHANGED <<args, focal, content, kind, imgProbed, started, outWritten,
                   wrote>>
    /\ UNCHANGED geomVars

\* if is_image(inp): format_image(...) / if is_video(inp): format_video(...)
\* else raise RuntimeError(f"Onbekend bestandstype: {inp.suffix}")
Dispatch ==
    /\ pc = "dispatch"
    /\ IF is_image(inp)
       THEN /\ kind' = "Image"
            /\ started' = TRUE
            /\ pc' = "transform"
            /\ UNCHANGED <<err, exitCode>>
       ELSE IF is_video(inp)
       THEN /\ kind' = "Video"
            /\ started' = TRUE
            /\ pc' = "transform"
            /\ UNCHANGED <<err, exitCode>>
       ELSE /\ kind' = "Unknown"
            /\ Raise("unknown_type")
            /\ UNCHANGED started
    /\ UNCHANGED <<args, focal, inp, content, renames, imgProbed, vidProbed,
                   outWritten, wrote>>
    /\ UNCHANGED geomVars

\* format_image / format_video: read the source size, compute the box for
\* the mode and hand it to the backend; the decode (Image.open, ffprobe_dims)
\* or the backend (resize, save, ffmpeg) may raise
Transform ==
    /\ pc = "transform"
    /\ \E ok \in BOOLEAN, s \in SrcDims :
         LET decodes == IF kind = "Image" THEN content \in ImageFormats
                        ELSE ffprobe_dims(content)
             tw == PLATFORMS.w
             th == PLATFORMS.h
         IN  IF ~decodes
             THEN /\ Raise(IF kind = "Image" THEN "decode" ELSE "process")
                  /\ UNCHANGED <<outWritten, gpc, src, tgt, crop, pad>>
             ELSE /\ src' = s
                  /\ tgt' = <<tw, th>>
                  /\ IF args.mode = "crop"
                     THEN /\ crop' = crop_box_centered(s[1], s[2], tw, th,
                                                       focal[1], focal[2])
                          /\ gpc' = "cropped"
                          /\ pad' = pad
                     ELSE /\ pad' = pad_box(s[1], s[2], tw, th)
                          /\ gpc' = "padded"
                          /\ crop' = crop
                  /\ IF ok
                     THEN /\ outWritten' = TRUE
                          /\ pc' = "written"
                          /\ UNCHANGED <<err, exitCode>>
                     ELSE /\ Raise(IF kind = "Image" THEN "encode" ELSE "process")
                          /\ UNCHANGED outWritten
    /\ UNCHANGED <<args, focal, inp, content, kind, renames, imgProbed,
                   vidProbed, started, wrote>>

\* print(f"Wrote {outp}"); return 0  ->  sys.exit(main())
Report ==
    /\ pc = "written"
    /\ wrote' = TRUE
    /\ exitCode' = 0
    /\ pc' = "done"
    /\ UNCHANGED <<args, focal, inp, content, kind, renames, imgProbed,
                   vidProbed, started, outWritten, err>>
    /\ UNCHANGED geomVars

Next ==
    \/ ParseArgs
    \/ Prepare
    \/ Download
    \/ ProbeImage
    \/ ProbeVideo
    \/ Dispatch
    \/ Transform
    \/ Report

Spec == Init /\ [][Next]_vars

\* ----------------------------------------- the geometry functions alone
GeomInit ==
    /\ pc = "start"
    /\ args = NoArgs
    /\ inp = ""
    /\ content = "junk"
    /\ kind = "Unset"
    /\ renames = 0
    /\ imgProbed = FALSE
    /\ vidProbed = FALSE
    /\ started = FALSE
    /\ outWritten = FALSE
    /\ wrote = FALSE
    /\ err = "none"
    /\ exitCode = -1
    /\ gpc = "input"
    /\ src \in SrcDims
    /\ tgt \in TgtDims
    /\ focal \in Focals \X Focals
    /\ crop = <<0, 0, 0, 0>>
    /\ pad = <<0, 0>>

CropBoxCentered ==
    /\ gpc = "input"
    /\ crop' = crop_box_centered(src[1], src[2], tgt[1], tgt[2],
                                 focal[1], focal[2])
    /\ gpc' = "cropped"
    /\ UNCHANGED <<src, tgt, focal, pad>>
    /\ UNCHANGED mainVars

PadBox ==
    /\ gpc = "input"
    /\ pad' = pad_box(src[1], src[2], tgt[1], tgt[2])
    /\ gpc' = "padded"
    /\ UNCHANGED <<src, tgt, focal, crop>>
    /\ UNCHANGED mainVars

GeomNext ==
    \/ CropBoxCentered
    \/ PadBox

GeomSpec == GeomInit /\ [][GeomNext]_vars

\* ================================================================ claims
\* src_ratio > tgt_ratio, on the inputs of the geometry functions
Wider == src[1] * tgt[2] > tgt[1] * src[2]
SameRatio == src[1] * tgt[2] = tgt[1] * src[2]
Abs(x) == IF x < 0 THEN 0 - x ELSE x

\* C1: the box returned by crop_box_centered lies within the source:
\* left >= 0, top >= 0, width <= src_w, height <= src_h,
\* left + width <= src_w and top + height <= src_h.
C1_CropBoxWithinSource ==
    gpc = "cropped" =>
        /\ crop[1] >= 0
        /\ crop[2] >= 0
        /\ crop[3] <= src[1]
        /\ crop[4] <= src[2]
        /\ crop[1] + crop[3] <= src[1]
        /\ crop[2] + crop[4] <= src[2]

\* a crop that discards pixels on both sides of the box
C1_Witness ==
    /\ gpc = "cropped"
    /\ crop[1] > 0
    /\ crop[1] + crop[3] < src[1]

\* C2: the crop box has the target's aspect ratio to within one pixel on
\* the constrained axis: source wider than target => height = src_h and
\* |width - src_h * target_w / target_h| <= 1; otherwise width = src_w and
\* |height - src_w * target_h / target_w| <= 1.
C2_CropBoxAspect ==
    gpc = "cropped" =>
        IF Wider
        THEN /\ crop[4] = src[2]
             /\ Abs(crop[3] * tgt[2] - src[2] * tgt[1]) <= tgt[2]
        ELSE /\ crop[3] = src[1]
             /\ Abs(crop[4] * tgt[1] - src[1] * tgt[2]) <= tgt[1]

\* a crop whose constrained axis was really rounded
C2_Witness ==
    /\ gpc = "cropped"
    /\ Wider
    /\ crop[3] * tgt[2] # src[2] * tgt[1]

\* C3: pad_box returns new_w <= target_w and new_h <= target_h with at
\* least one of them equal to the target's dimension.
C3_PadBoxFits ==
    gpc = "padded" =>
        /\ pad[1] <= tgt[1]
        /\ pad[2] <= tgt[2]
        /\ (pad[1] = tgt[1] \/ pad[2] = tgt[2])

\* a fit that leaves bars left and right
C3_Witness ==
    /\ gpc = "padded"
    /\ pad[1] < tgt[1]
    /\ pad[1] >= 1
    /\ pad[2] = tgt[2]

\* the inputs of the example: src=(4000,3000), target=(1080,1920),
\* focal=(0.5,0.5), crop mode
C4_Example ==
    /\ gpc = "cropped"
    /\ src = <<4000, 3000>>
    /\ tgt = <<1080, 1920>>
    /\ focal = <<FocalHalf, FocalHalf>>

\* C4 as stated: the example returns width 1687, height 3000, left 1157,
\* top 0.
C4_Original == C4_Example => crop = <<1157, 0, 1687, 3000>>

\* C4 amended: the example returns width 1688, height 3000, left 1156,
\* top 0 (3000 * 1080 / 1920 = 1687.5 rounds to the even 1688, and
\* (4000 - 1688) * 0.5 = 1156).
C4_ExampleBox == C4_Example => crop = <<1156, 0, 1688, 3000>>

C4_Witness == C4_Example /\ crop[3] = 1688

\* C9 as stated: exactly one of width = src_w and height = src_h holds and
\* the other dimension is strictly smaller than the source's.
C9_Original ==
    gpc = "cropped" =>
        \/ (crop[3] = src[1] /\ crop[4] < src[2])
        \/ (crop[4] = src[2] /\ crop[3] < src[1])

\* C9 amended: at least one of width = src_w and height = src_h holds and
\* the other dimension is no larger than the source's; when source and
\* target have the same aspect ratio both hold and left = top = 0.
C9_OneAxisUntouched ==
    gpc = "cropped" =>
        /\ (crop[3] = src[1] \/ crop[4] = src[2])
        /\ crop[3] <= src[1]
        /\ crop[4] <= src[2]
        /\ SameRatio => crop = <<0, 0, src[1], src[2]>>

\* both axes untouched although the ratios differ: rounding brought the
\* constrained axis back to the source size
C9_Witness ==
    /\ gpc = "cropped"
    /\ ~SameRatio
    /\ crop[3] = src[1]
    /\ crop[4] = src[2]

\* C10: both geometry functions return boxes of strictly positive size:
\* crop_box_centered width >= 1 and height >= 1, pad_box new_w >= 1 and
\* new_h >= 1, so no zero-sized region reaches the backend.
C10_PositiveSize ==
    /\ gpc = "cropped" => (crop[3] >= 1 /\ crop[4] >= 1)
    /\ gpc = "padded" => (pad[1] >= 1 /\ pad[2] >= 1)

\* ------------------------------------------------------------ main claims
\* the suffix of the file as downloaded, before any rename
OrigExt ==
    IF guess_ext_from_url(args.url) = "" THEN ".bin"
    ELSE guess_ext_from_url(args.url)

\* download() has returned
Acquired ==
    \/ pc \in {"probe_image", "probe_video", "dispatch", "transform",
               "written", "done"}
    \/ (pc = "failed" /\ err \notin {"value", "acquisition"})

\* C5: a file with a recognized image extension is classified Image with
\* no probe and no rename; a placeholder file whose bytes decode as PNG is
\* renamed to input.png and classified Image; a placeholder file that
\* fails both the image decode and the video probe ends the run with the
\* "cannot determine media kind" error and no transform is started.
C5_KindResolution ==
    /\ (Acquired /\ OrigExt \in IMAGE_EXTS) =>
          /\ ~imgProbed
          /\ ~vidProbed
          /\ renames = 0
          /\ inp = OrigExt
          /\ pc # "dispatch" => kind = "Image"
    /\ (Acquired /\ OrigExt = ".bin" /\ content = "png"
            /\ pc # "probe_image") =>
          /\ imgProbed
          /\ renames = 1
          /\ inp = ".png"
          /\ pc # "dispatch" => kind = "Image"
    /\ (Acquired /\ OrigExt = ".bin" /\ content \notin ImageFormats
            /\ ~ffprobe_dims(content)
            /\ pc \notin {"probe_image", "probe_video"}) =>
          /\ pc = "failed"
          /\ err = "kind"
          /\ exitCode = 1
          /\ ~started
          /\ ~outWritten

\* a placeholder PNG went through the probe and was written as an image
C5_Witness ==
    /\ pc = "done"
    /\ OrigExt = ".bin"
    /\ content = "png"
    /\ inp = ".png"
    /\ kind = "Image"

Terminated == exitCode # -1

\* C6 as stated: exit code 0 exactly when the output was written, 1 on
\* every fatal error including a configuration error, no other exit code.
C6_Original ==
    Terminated =>
        /\ exitCode \in {0, 1}
        /\ exitCode = 0 <=> outWritten
        /\ err \in {"usage", "value", "acquisition", "kind", "unknown_type",
                    "decode", "encode", "process"} => exitCode = 1

\* C6 amended: exit code 0 exactly when the output was written and
\* reported or argparse served --help; exit code 1 on every error raised
\* as an exception inside main (unparsable focal value, acquisition, kind
\* resolution, unknown type, decode, encode, external process); exit code
\* 2 when argparse rejects the command line (e.g. an out-of-domain mode);
\* no other exit code.
C6_ExitCodes ==
    /\ Terminated <=> pc \in {"done", "failed", "exited"}
    /\ Terminated =>
        /\ exitCode \in {0, 1, 2}
        /\ exitCode = 0 <=> (outWritten \/ err = "help")
        /\ exitCode = 0 /\ outWritten => wrote
        /\ exitCode = 1 <=> pc = "failed"
        /\ exitCode = 1 <=> err \in {"value", "acquisition", "kind",
                                     "unknown_type", "decode", "encode",
                                     "process"}
        /\ exitCode = 2 <=> err = "usage"

\* a run argparse rejected
C6_Witness ==
    /\ pc = "exited"
    /\ err = "usage"
    /\ exitCode = 2

\* C7 as stated: a run on a file whose extension is neither a recognized
\* image nor video extension never fails without the image probe having
\* been attempted and, when that did not classify the file as Image, the
\* video probe.
C7_Original ==
    (pc = "failed" /\ Acquired /\ OrigExt \notin IMAGE_EXTS \cup VIDEO_EXTS) =>
        /\ imgProbed
        /\ kind # "Image" => vidProbed

\* C7 amended: for an acquired file with the placeholder extension .bin
\* the image-decode probe is attempted, and when that decode raises the
\* video probe is attempted, before the run can fail or transform; a file
\* with any other unrecognized extension is never probed and fails with
\* the unknown-type error, and a placeholder file that decodes as an image
\* of an unrecognized format fails with that error without a video probe.
C7_PlaceholderProbed ==
    /\ (Acquired /\ OrigExt = ".bin" /\ pc # "probe_image") =>
          /\ imgProbed
          /\ (content \notin ImageFormats /\ pc # "probe_video") => vidProbed
          /\ (content \in ImageFormats /\ RenameTarget(content) = ""
                /\ pc # "dispatch") =>
                (~vidProbed /\ pc = "failed" /\ err = "unknown_type")
    /\ (Acquired /\ OrigExt \notin IMAGE_EXTS \cup VIDEO_EXTS \cup {".bin"}) =>
          /\ ~imgProbed
          /\ ~vidProbed
          /\ pc # "dispatch" => (pc = "failed" /\ err = "unknown_type")

\* a placeholder file failed after both probes
C7_Witness ==
    /\ pc = "failed"
    /\ OrigExt = ".bin"
    /\ imgProbed
    /\ vidProbed
    /\ err = "kind"

\* the phase of the run
Phase(p) ==
    CASE p \in {"start", "parsed", "download", "probe_image", "probe_video"}
             -> "Unresolved"
      [] p = "dispatch"  -> "KindResolved"
      [] p = "transform" -> "Transforming"
      [] p = "written"   -> "Written"
      [] p = "done"      -> "Done"
      [] p = "failed"    -> "Failed"
      [] p = "exited"    -> "Aborted"

Successor(a) ==
    CASE a = "Unresolved"   -> "KindResolved"
      [] a = "KindResolved" -> "Transforming"
      [] a = "Transforming" -> "Written"
      [] a = "Written"      -> "Done"
      [] OTHER              -> "None"

\* the phase moves forward by one, or to Failed; argparse may end the
\* process before anything was done
C8_PhaseStep ==
    LET a == Phase(pc)
        b == Phase(pc')
    IN  \/ b = a
        \/ b = Successor(a)
        \/ b = "Failed"
        \/ (b = "Aborted" /\ pc = "start")

\* at most one rename, before the kind is resolved and any transform starts
C8_RenameStep ==
    renames' # renames =>
        /\ renames = 0
        /\ renames' = 1
        /\ Phase(pc) = "Unresolved"
        /\ ~started

\* a transform starts only for an Image or a Video
C8_TransformStep ==
    (Phase(pc') = "Transforming" \/ started') => kind' \in {"Image", "Video"}

\* Failed is terminal: no step, so no transform and no report, follows
C8_FailedTerminal == pc \notin {"failed", "exited", "done"}

ImageProbeFails == pc = "probe_image" /\ content \notin ImageFormats
VideoProbeFails == pc = "probe_video" /\ ~ffprobe_dims(content)
TransformFails == pc = "transform" /\ pc' # "written"

\* C8 as stated: phases advance only forward, one rename at most and only
\* before any transform, transforms only for Image or Video, and any probe
\* or transform failure moves directly to Failed, which is terminal.
C8_Original ==
    [][/\ C8_PhaseStep
       /\ C8_RenameStep
       /\ C8_TransformStep
       /\ C8_FailedTerminal
       /\ (ImageProbeFails \/ VideoProbeFails \/ TransformFails)
             => (pc' = "failed" /\ ~wrote')]_vars

\* C8 amended: as stated, except that a failure of the image-decode probe
\* moves to the video probe (still Unresolved); a failure of the video
\* probe or of the transform moves directly to Failed, which is terminal.
C8_PhaseOrder ==
    [][/\ C8_PhaseStep
       /\ C8_RenameStep
       /\ C8_TransformStep
       /\ C8_FailedTerminal
       /\ ImageProbeFails => (pc' = "probe_video" /\ renames' = renames)
       /\ (VideoProbeFails \/ TransformFails)
             => (pc' = "failed" /\ ~wrote')]_vars

\* the image probe failed, the video probe renamed the file, and the run
\* went through every phase
C8_Witness ==
    /\ pc = "done"
    /\ imgProbed
    /\ vidProbed
    /\ renames = 1
    /\ kind = "Video"
    /\ wrote

====
